---- MODULE Spec2Model ----
\* Model of the SAP job worker (sap_job_worker.py): the Job Store rows, the two
\* document tables, the worker objects with their threads, and the caller that
\* starts and stops the worker.  One step of a worker thread is the code between
\* two db.session.commit() calls (or up to a blocking call), so every state of
\* the model is a persisted state of the Job Store.
EXTENDS Naturals, Integers, Sequences, FiniteSets, TLC

VARIABLES jobs, GRPODocument, SerialItemTransfer,
          sap_worker, workers, threads, caller, stop_returned, api

vars == <<jobs, GRPODocument, SerialItemTransfer,
          sap_worker, workers, threads, caller, stop_returned, api>>

\* ---------------------------------------------------------------- bounds
MaxJobs == 2
MaxThreads == 2
MaxCallers == 2
MaxApiJobs == 1
MaxRetries == 3
ManyRetries == 6

\* ---------------------------------------------------------------- constants
\* min(300, 30 * (2 ** (job.retry_count - 1)))
BackoffBase == 30
BackoffCap == 300
\* self.thread.join(timeout=30)
JoinTimeout == 30

NULL == "None"

\* Time is kept relative to the present: datetime.utcnow() is 0, a
\* next_retry_at is the number of seconds from now until the job is due
\* (0 once it is due), and Tick moves the present on.  The columns the worker
\* only writes and never reads are NULL or "set" (error_message, result) or,
\* for the timestamps started_at and completed_at, NULL, "set" or
\* "overwritten".
utcnow == 0
NoTime == 0 - 1

\* The values of the free-text columns that the worker distinguishes.
JobTypes == {"grpo_post", "serial_transfer", "unknown_type"}
DocumentTypes == {"grpo", "serial_item_transfer"}
\* Primary keys a job may carry; only those in the tables' domains exist.
DocIds == {1, 2}
ExistingIds == {1}
\* Document numbers the Integration Client may return.
DocNumbers == {"90001"}

\* What SAPIntegration.post_grpo_to_sap / create_serial_item_stock_transfer
\* hands back: a success dict, a failure dict, or an exception.  number is
\* what sap_result.get(key) gives for the key the handler reads: a document
\* number, or None when the success dict has no such key.
SapOutcomes ==
    [kind : {"success"}, number : DocNumbers \cup {NULL}]
        \cup [kind : {"failure", "raised"}, number : {NULL}]

\* The callers of the worker object's own methods, and a caller that is in
\* none of them.
ApiCallers == 1..MaxCallers

IdleCaller == [pc |-> "idle", w |-> 0, found_running |-> FALSE]

\* x = datetime.utcnow() on a timestamp column holding old: the first
\* assignment sets it, a later one replaces the time it held by a later time.
Stamp(old) == IF old = NULL THEN "set" ELSE "overwritten"

Min(a, b) == IF a <= b THEN a ELSE b

RECURSIVE Pow2(_)
Pow2(n) == IF n = 0 THEN 1 ELSE 2 * Pow2(n - 1)

\* ---------------------------------------------------------------- database
\* The three tables as one value, so that the methods below are functions
\* from a database to a database.
DB == [jobs |-> jobs, grpo |-> GRPODocument, transfer |-> SerialItemTransfer]

\* .order_by(SAPJob.created_at): the rows S of js, smallest created_at
\* first.  created_at is the rank of the insert, so no two rows share one.
RECURSIVE order_by_created_at(_, _)
order_by_created_at(js, S) ==
    IF S = {} THEN <<>>
    ELSE LET i == CHOOSE i \in S :
                     \A k \in S : js[i].created_at <= js[k].created_at
         IN  <<i>> \o order_by_created_at(js, S \ {i})

\* The pending jobs, largest created_at first.
pending_jobs_newest_first(js) ==
    LET asc == order_by_created_at(js,
                   {i \in 1..Len(js) : js[i].status = "pending"})
    IN  [i \in 1..Len(asc) |-> asc[Len(asc) + 1 - i]]

\* SAPJob.query.filter_by(status='pending').order_by(SAPJob.created_at).all()
pending_jobs(js) ==
    order_by_created_at(js, {i \in 1..Len(js) : js[i].status = "pending"})

\* SAPJob.query.filter(status == 'retrying', next_retry_at <= retry_time)
\*     .order_by(SAPJob.created_at).all()
retry_jobs(js, retry_time) ==
    order_by_created_at(js, {i \in 1..Len(js) :
                                js[i].status = "retrying"
                                /\ js[i].next_retry_at <= retry_time})

\* retry_delay = min(300, 30 * (2 ** (job.retry_count - 1)))
retry_delay(retry_count) ==
    Min(BackoffCap, BackoffBase * Pow2(retry_count - 1))

\* _mark_job_failed without the assignment job.status = 'failed'.
mark_job_failed_keeps_status(d, j, error_message, t) ==
    LET job == d.jobs[j]
        js  == [d.jobs EXCEPT ![j].completed_at = Stamp(@),
                              ![j].error_message = "set"]
    IN  IF job.document_type = "grpo" /\ job.document_id \in DOMAIN d.grpo
        THEN [d EXCEPT !.jobs = js,
                       !.grpo[job.document_id].status = "qc_approved"]
        ELSE IF job.document_type = "serial_item_transfer"
                /\ job.document_id \in DOMAIN d.transfer
        THEN [d EXCEPT !.jobs = js,
                       !.transfer[job.document_id].status = "qc_approved"]
        ELSE [d EXCEPT !.jobs = js]

\* _mark_job_failed: the job becomes failed and the document that
\* job.document_type / job.document_id name, when there is one, goes back to
\* qc_approved; one commit.
_mark_job_failed(d, j, error_message, t) ==
    LET job == d.jobs[j]
        js  == [d.jobs EXCEPT ![j].status = "failed",
                              ![j].completed_at = Stamp(@),
                              ![j].error_message = "set"]
    IN  IF job.document_type = "grpo" /\ job.document_id \in DOMAIN d.grpo
        THEN [d EXCEPT !.jobs = js,
                       !.grpo[job.document_id].status = "qc_approved"]
        ELSE IF job.document_type = "serial_item_transfer"
                /\ job.document_id \in DOMAIN d.transfer
        THEN [d EXCEPT !.jobs = js,
                       !.transfer[job.document_id].status = "qc_approved"]
        ELSE [d EXCEPT !.jobs = js]

\* _handle_job_retry without the assignment job.status = 'retrying'.
handle_job_retry_keeps_status(d, j, error_message, t) ==
    LET rc == d.jobs[j].retry_count + 1
        d1 == [d EXCEPT !.jobs[j].retry_count = rc,
                        !.jobs[j].error_message = "set"]
    IN  IF rc >= d.jobs[j].max_retries
        THEN _mark_job_failed(d1, j, error_message, t)
        ELSE [d1 EXCEPT !.jobs[j].next_retry_at = t + retry_delay(rc)]

\* _handle_job_retry: count the failure, then either give up or schedule the
\* retry; one commit.
_handle_job_retry(d, j, error_message, t) ==
    LET rc == d.jobs[j].retry_count + 1
        d1 == [d EXCEPT !.jobs[j].retry_count = rc,
                        !.jobs[j].error_message = "set"]
    IN  IF rc >= d.jobs[j].max_retries
        THEN _mark_job_failed(d1, j, error_message, t)
        ELSE [d1 EXCEPT !.jobs[j].status = "retrying",
                        !.jobs[j].next_retry_at = t + retry_delay(rc)]

\* The success branch of _process_grpo_job / _process_serial_transfer_job:
\* document and job are written in one commit.
post_success(d, j, number, t) ==
    LET job == d.jobs[j]
        js  == [d.jobs EXCEPT ![j].status = "completed",
                              ![j].completed_at = Stamp(@),
                              ![j].sap_document_number = number,
                              ![j].result = "set"]
    IN  IF job.job_type = "grpo_post"
        THEN [d EXCEPT !.jobs = js,
                       !.grpo[job.payload].sap_document_number = number,
                       !.grpo[job.payload].status = "posted"]
        ELSE [d EXCEPT !.jobs = js,
                       !.transfer[job.payload].sap_document_number = number,
                       !.transfer[job.payload].status = "posted"]

\* The first half of _process_job: the dispatch on job_type and the handler's
\* lookup of the document named in the payload.  "call" when the handler goes
\* on to the Integration Client, otherwise the exception it raises.
dispatch(d, j) ==
    LET job == d.jobs[j]
    IN  IF job.job_type = "grpo_post"
        THEN IF job.payload \in DOMAIN d.grpo THEN "call" ELSE "not_found"
        ELSE IF job.job_type = "serial_transfer"
        THEN IF job.payload \in DOMAIN d.transfer THEN "call" ELSE "not_found"
        ELSE "unknown_job_type"

Commit(d) ==
    /\ jobs' = d.jobs
    /\ GRPODocument' = d.grpo
    /\ SerialItemTransfer' = d.transfer

\* ---------------------------------------------------------------- Init
\* No job yet, no worker yet.  The documents are the ones awaiting their
\* posting: the worker writes 'posted' and 'qc_approved' only, and
\* "in_progress" stands for whatever status the enqueuing workflow left.
Init ==
    /\ jobs = <<>>
    /\ GRPODocument = [i \in ExistingIds |->
                          [status |-> "in_progress", sap_document_number |-> NULL]]
    /\ SerialItemTransfer = [i \in ExistingIds |->
                          [status |-> "in_progress", sap_document_number |-> NULL]]
    /\ sap_worker = 0
    /\ workers = <<>>
    /\ threads = <<>>
    /\ caller = [pc |-> "idle", timeout |-> 0, thread |-> 0]
    /\ stop_returned = {}
    /\ api = [c \in ApiCallers |-> IdleCaller]

\* ---------------------------------------------------------------- environment
\* BackoffBase seconds pass: every retry comes that much closer, and so does
\* the end of a join that is waiting.
Elapse(seconds) ==
    IF seconds > BackoffBase THEN seconds - BackoffBase ELSE 0

Tick ==
    /\ \/ \E j \in 1..Len(jobs) : jobs[j].next_retry_at > 0
       \/ caller.pc # "idle" /\ caller.timeout > 0
    /\ jobs' = [j \in 1..Len(jobs) |->
                [jobs[j] EXCEPT !.next_retry_at =
                    IF @ = NoTime THEN NoTime ELSE Elapse(@)]]
    /\ caller' = [caller EXCEPT !.timeout = Elapse(@)]
    /\ UNCHANGED <<GRPODocument, SerialItemTransfer,
                   sap_worker, workers, threads, stop_returned, api>>

\* The enqueuing collaborator inserts a pending job.  The payload carries the
\* id that document_id carries; job_type and document_type are independent
\* columns.  attempts is no column: it counts the calls of _process_job for
\* the job.
enqueue(job_type, document_type, document_id, payload, max_retries) ==
    /\ Len(jobs) < MaxJobs
    /\ jobs' = Append(jobs,
          [job_type |-> job_type, document_type |-> document_type,
           document_id |-> document_id, payload |-> payload,
           status |-> "pending", retry_count |-> 0,
           max_retries |-> max_retries, next_retry_at |-> NoTime,
           created_at |-> Len(jobs) + 1, started_at |-> NULL,
           completed_at |-> NULL, error_message |-> NULL,
           result |-> NULL, sap_document_number |-> NULL,
           attempts |-> 0])
    /\ UNCHANGED <<GRPODocument, SerialItemTransfer,
                   sap_worker, workers, threads, caller, stop_returned, api>>

Enqueue ==
    \E jt \in JobTypes, dt \in DocumentTypes, did \in DocIds,
       mr \in {1, MaxRetries} :
        enqueue(jt, dt, did, did, mr)

\* ---------------------------------------------------------------- lifecycle
NewThread(w) ==
    [self |-> w, pc |-> "loop", phase |-> "pending", todo |-> <<>>,
     job |-> 0]

\* if self.running: ... return
start_returns_early(running) == running

\* The rest of SAPJobWorker.start: set the flag, create and start the thread.
start_thread(ws, w) ==
    /\ Len(threads) < MaxThreads
    /\ workers' = [ws EXCEPT ![w].running = TRUE,
                             ![w].thread = Len(threads) + 1]
    /\ threads' = Append(threads, NewThread(w))
    /\ stop_returned' = stop_returned \ {w}

\* SAPJobWorker.start on worker object w, given the workers as they are,
\* with no other caller in between.
start(ws, w) ==
    /\ ~start_returns_early(ws[w].running)
    /\ start_thread(ws, w)

\* start_sap_worker(): only when there is no global worker.
start_sap_worker ==
    /\ caller.pc = "idle"
    /\ sap_worker = 0
    /\ sap_worker' = Len(workers) + 1
    /\ start(Append(workers, [running |-> FALSE, thread |-> 0]),
             Len(workers) + 1)
    /\ UNCHANGED <<jobs, GRPODocument, SerialItemTransfer, caller, api>>

\* sap_worker.start() called on the global worker object by caller c, one of
\* several callers that may be inside start() at once.  No code of the
\* repository makes this call (start_sap_worker and stop_sap_worker are the
\* only callers of start and stop), so it is an action of SpecApi only.
\* start() holds no lock, so the test of self.running and the assignments
\* after it are two steps.  found_running is what the test read.
BeginStart(c) ==
    /\ api[c].pc = "idle"
    /\ sap_worker # 0
    /\ LET r == workers[sap_worker].running
       IN  api' = [api EXCEPT ![c] =
                    IF start_returns_early(r)
                    THEN [pc |-> "idle", w |-> 0, found_running |-> r]
                    ELSE [pc |-> "starting", w |-> sap_worker,
                          found_running |-> r]]
    /\ UNCHANGED <<jobs, GRPODocument, SerialItemTransfer,
                   sap_worker, workers, threads, caller, stop_returned>>

FinishStart(c) ==
    /\ api[c].pc = "starting"
    /\ start_thread(workers, api[c].w)
    /\ api' = [api EXCEPT ![c].pc = "idle", ![c].w = 0]
    /\ UNCHANGED <<jobs, GRPODocument, SerialItemTransfer,
                   sap_worker, caller>>

\* SAPJobWorker.stop up to the join: clear the flag and wait for the thread.
stop(w, via) ==
    /\ workers[w].running
    /\ workers' = [workers EXCEPT ![w].running = FALSE]
    /\ caller' = [pc |-> via, timeout |-> JoinTimeout,
                  thread |-> workers[w].thread]
    /\ UNCHANGED <<jobs, GRPODocument, SerialItemTransfer,
                   sap_worker, threads, stop_returned, api>>

\* sap_worker.stop() called on the global worker object; as for BeginStart,
\* an action of SpecApi only.
Stop ==
    /\ caller.pc = "idle"
    /\ sap_worker # 0
    /\ stop(sap_worker, "stop")

\* stop_sap_worker() up to the join inside stop().
stop_sap_worker ==
    /\ caller.pc = "idle"
    /\ sap_worker # 0
    /\ stop(sap_worker, "stop_sap_worker")

\* The end of stop(), and of stop_sap_worker() after it.
StopReturns ==
    /\ stop_returned' = stop_returned \cup {sap_worker}
    /\ sap_worker' = IF caller.pc = "stop_sap_worker" THEN 0 ELSE sap_worker
    /\ caller' = [pc |-> "idle", timeout |-> 0, thread |-> 0]
    /\ UNCHANGED <<jobs, GRPODocument, SerialItemTransfer,
                   workers, threads, api>>

\* join() returns because the thread has ended.
JoinReturn ==
    /\ caller.pc \in {"stop", "stop_sap_worker"}
    /\ threads[caller.thread].pc = "done"
    /\ StopReturns

\* join(timeout=30) gives up: 30 s after stop() was called the thread is
\* still inside an Integration Client call, or it is still looping because
\* start() has set self.running again.
JoinTimesOut ==
    /\ caller.pc \in {"stop", "stop_sap_worker"}
    /\ \/ threads[caller.thread].pc = "sap_call"
       \/ /\ threads[caller.thread].pc # "done"
          /\ workers[threads[caller.thread].self].running
    /\ caller.timeout = 0
    /\ StopReturns

\* ---------------------------------------------------------------- worker thread
Goto(t, next) == threads' = [threads EXCEPT ![t] = next]

\* while self.running: ... _process_pending_jobs() fetches the pending jobs.
LoopCheck(t) ==
    /\ threads[t].pc = "loop"
    /\ IF workers[threads[t].self].running
       THEN Goto(t, [threads[t] EXCEPT !.pc = "iter", !.phase = "pending",
                                       !.todo = pending_jobs(jobs)])
       ELSE Goto(t, [threads[t] EXCEPT !.pc = "done"])
    /\ UNCHANGED <<jobs, GRPODocument, SerialItemTransfer,
                   sap_worker, workers, caller, stop_returned, api>>

\* _process_job up to the Integration Client call: mark the job processing,
\* commit, dispatch, look the document up.
BeginJob(t) ==
    /\ threads[t].pc = "iter"
    /\ threads[t].todo # <<>>
    /\ LET j == Head(threads[t].todo)
           d == [DB EXCEPT !.jobs[j].status = "processing",
                           !.jobs[j].started_at = Stamp(@),
                           !.jobs[j].attempts = @ + 1]
           r == dispatch(d, j)
       IN  /\ Commit(d)
           /\ Goto(t, [threads[t] EXCEPT
                         !.todo = Tail(threads[t].todo),
                         !.job = j,
                         !.pc = IF r = "call" THEN "sap_call" ELSE "handle_retry"])
    /\ UNCHANGED <<sap_worker, workers, caller, stop_returned, api>>

\* The Integration Client call returns: on success the handler writes the
\* document and the job; otherwise it raises.
SapReturns(t) ==
    /\ threads[t].pc = "sap_call"
    /\ \E res \in SapOutcomes :
          IF res.kind = "success"
          THEN /\ Commit(post_success(DB, threads[t].job, res.number, utcnow))
               /\ Goto(t, [threads[t] EXCEPT !.pc = "iter", !.job = 0])
          ELSE /\ Goto(t, [threads[t] EXCEPT !.pc = "handle_retry"])
               /\ UNCHANGED <<jobs, GRPODocument, SerialItemTransfer>>
    /\ UNCHANGED <<sap_worker, workers, caller, stop_returned, api>>

\* except Exception in _process_job: _handle_job_retry(job, str(e)); raise
HandleFailure(t) ==
    /\ threads[t].pc = "handle_retry"
    /\ Commit(_handle_job_retry(DB, threads[t].job, "str(e)", utcnow))
    /\ Goto(t, [threads[t] EXCEPT !.pc = "raised"])
    /\ UNCHANGED <<sap_worker, workers, caller, stop_returned, api>>

\* The except clause of _process_pending_jobs, leaving the for loop as well.
PendingExcept_leaves_loop(t) ==
    /\ threads[t].pc = "raised"
    /\ threads[t].phase = "pending"
    /\ Commit(_mark_job_failed(DB, threads[t].job, "str(e)", utcnow))
    /\ Goto(t, [threads[t] EXCEPT !.pc = "iter", !.job = 0, !.todo = <<>>])
    /\ UNCHANGED <<sap_worker, workers, caller, stop_returned, api>>

\* except Exception in _process_pending_jobs: _mark_job_failed(job, str(e))
PendingExcept(t) ==
    /\ threads[t].pc = "raised"
    /\ threads[t].phase = "pending"
    /\ Commit(_mark_job_failed(DB, threads[t].job, "str(e)", utcnow))
    /\ Goto(t, [threads[t] EXCEPT !.pc = "iter", !.job = 0])
    /\ UNCHANGED <<sap_worker, workers, caller, stop_returned, api>>

\* except Exception in _process_retry_jobs: _handle_job_retry(job, str(e))
RetryExcept(t) ==
    /\ threads[t].pc = "raised"
    /\ threads[t].phase = "retry"
    /\ Commit(_handle_job_retry(DB, threads[t].job, "str(e)", utcnow))
    /\ Goto(t, [threads[t] EXCEPT !.pc = "iter", !.job = 0])
    /\ UNCHANGED <<sap_worker, workers, caller, stop_returned, api>>

\* _process_retry_jobs fetching without waiting for the pending jobs.
FetchRetry_at_once(t) ==
    /\ threads[t].pc = "iter"
    /\ threads[t].phase = "pending"
    /\ Goto(t, [threads[t] EXCEPT !.phase = "retry",
                                  !.todo = retry_jobs(jobs, utcnow)])
    /\ UNCHANGED <<jobs, GRPODocument, SerialItemTransfer,
                   sap_worker, workers, caller, stop_returned, api>>

\* _process_retry_jobs fetches once the pending jobs of the cycle are done.
FetchRetry(t) ==
    /\ threads[t].pc = "iter"
    /\ threads[t].todo = <<>>
    /\ threads[t].phase = "pending"
    /\ Goto(t, [threads[t] EXCEPT !.phase = "retry",
                                  !.todo = retry_jobs(jobs, utcnow)])
    /\ UNCHANGED <<jobs, GRPODocument, SerialItemTransfer,
                   sap_worker, workers, caller, stop_returned, api>>

\* time.sleep(self.poll_interval) at the end of the cycle.
EndCycle(t) ==
    /\ threads[t].pc = "iter"
    /\ threads[t].todo = <<>>
    /\ threads[t].phase = "retry"
    /\ Goto(t, [threads[t] EXCEPT !.pc = "loop"])
    /\ UNCHANGED <<jobs, GRPODocument, SerialItemTransfer,
                   sap_worker, workers, caller, stop_returned, api>>

Next ==
    \/ Tick
    \/ Enqueue
    \/ start_sap_worker
    \/ stop_sap_worker
    \/ JoinReturn
    \/ JoinTimesOut
    \/ \E t \in 1..Len(threads) : LoopCheck(t)
    \/ \E t \in 1..Len(threads) : BeginJob(t)
    \/ \E t \in 1..Len(threads) : SapReturns(t)
    \/ \E t \in 1..Len(threads) : HandleFailure(t)
    \/ \E t \in 1..Len(threads) : PendingExcept(t)
    \/ \E t \in 1..Len(threads) : RetryExcept(t)
    \/ \E t \in 1..Len(threads) : FetchRetry(t)
    \/ \E t \in 1..Len(threads) : EndCycle(t)

Spec == Init /\ [][Next]_vars

\* The worker driven through the methods of the worker object as well, by
\* callers that run concurrently, on jobs of one kind.
EnqueueApi ==
    /\ Len(jobs) < MaxApiJobs
    /\ enqueue("grpo_post", "grpo", 1, 1, MaxRetries)

NextApi ==
    \/ Tick
    \/ EnqueueApi
    \/ start_sap_worker
    \/ stop_sap_worker
    \/ Stop
    \/ JoinReturn
    \/ JoinTimesOut
    \/ \E c \in ApiCallers : BeginStart(c)
    \/ \E c \in ApiCallers : FinishStart(c)
    \/ \E t \in 1..Len(threads) : LoopCheck(t)
    \/ \E t \in 1..Len(threads) : BeginJob(t)
    \/ \E t \in 1..Len(threads) : SapReturns(t)
    \/ \E t \in 1..Len(threads) : HandleFailure(t)
    \/ \E t \in 1..Len(threads) : PendingExcept(t)
    \/ \E t \in 1..Len(threads) : RetryExcept(t)
    \/ \E t \in 1..Len(threads) : FetchRetry(t)
    \/ \E t \in 1..Len(threads) : EndCycle(t)

SpecApi == Init /\ [][NextApi]_vars

\* The worker on jobs of one kind that may be retried often enough for the
\* backoff to reach its cap.
EnqueueManyRetries ==
    /\ Len(jobs) < MaxApiJobs
    /\ enqueue("grpo_post", "grpo", 1, 1, ManyRetries)

NextManyRetries ==
    \/ Tick
    \/ EnqueueManyRetries
    \/ start_sap_worker
    \/ stop_sap_worker
    \/ JoinReturn
    \/ JoinTimesOut
    \/ \E t \in 1..Len(threads) : LoopCheck(t)
    \/ \E t \in 1..Len(threads) : BeginJob(t)
    \/ \E t \in 1..Len(threads) : SapReturns(t)
    \/ \E t \in 1..Len(threads) : HandleFailure(t)
    \/ \E t \in 1..Len(threads) : PendingExcept(t)
    \/ \E t \in 1..Len(threads) : RetryExcept(t)
    \/ \E t \in 1..Len(threads) : FetchRetry(t)
    \/ \E t \in 1..Len(threads) : EndCycle(t)

SpecManyRetries == Init /\ [][NextManyRetries]_vars

\* A step of worker thread t, whichever it is.
ThreadStep(t) ==
    /\ t \in 1..Len(threads)
    /\ \/ LoopCheck(t)
       \/ BeginJob(t)
       \/ SapReturns(t)
       \/ HandleFailure(t)
       \/ PendingExcept(t)
       \/ RetryExcept(t)
       \/ FetchRetry(t)
       \/ EndCycle(t)

\* Every started thread keeps being scheduled, and every Integration Client
\* call and every sleep it is in returns.
ThreadsRun == \A t \in 1..MaxThreads : WF_vars(ThreadStep(t))

\* SpecApi with threads that run.
SpecApiFair == Init /\ [][NextApi]_vars /\ ThreadsRun

\* The worker on one job of any kind, with threads that run and time that
\* passes.
EnqueueLive ==
    /\ Len(jobs) < MaxApiJobs
    /\ \E jt \in JobTypes, dt \in DocumentTypes, did \in DocIds,
          mr \in {1, MaxRetries, ManyRetries} :
           enqueue(jt, dt, did, did, mr)

NextLive ==
    \/ Tick
    \/ EnqueueLive
    \/ start_sap_worker
    \/ stop_sap_worker
    \/ JoinReturn
    \/ JoinTimesOut
    \/ \E t \in 1..Len(threads) : LoopCheck(t)
    \/ \E t \in 1..Len(threads) : BeginJob(t)
    \/ \E t \in 1..Len(threads) : SapReturns(t)
    \/ \E t \in 1..Len(threads) : HandleFailure(t)
    \/ \E t \in 1..Len(threads) : PendingExcept(t)
    \/ \E t \in 1..Len(threads) : RetryExcept(t)
    \/ \E t \in 1..Len(threads) : FetchRetry(t)
    \/ \E t \in 1..Len(threads) : EndCycle(t)

SpecLive == Init /\ [][NextLive]_vars /\ ThreadsRun /\ WF_vars(Tick)

\* ---------------------------------------------------------------- helpers
JobIds == 1..Len(jobs)

ThreadIds == 1..Len(threads)

\* The job has a handler and the document its payload names exists.
HasHandlerDocument(j) == dispatch(DB, j) = "call"

\* The document the handler of job j loads and posts.
HandlerDocument(j) ==
    IF jobs[j].job_type = "grpo_post"
    THEN GRPODocument[jobs[j].payload]
    ELSE SerialItemTransfer[jobs[j].payload]

\* Thread t is inside a poll cycle: it has fetched and is processing.
InCycle(t) == threads[t].pc \in {"iter", "sap_call", "handle_retry", "raised"}

\* Thread t is inside the processing attempt of job j, between the commit of
\* 'processing' and the commit that ends the attempt.
InAttempt(t, j) ==
    threads[t].job = j /\ threads[t].pc \in {"sap_call", "handle_retry"}

\* ---------------------------------------------------------------- claims

\* C1: every persisted change of a job's status is one of
\* pending->processing, processing->completed, processing->retrying,
\* retrying->processing, processing->failed.
StatusGraph ==
    {<<"pending", "processing">>, <<"processing", "completed">>,
     <<"processing", "retrying">>, <<"retrying", "processing">>,
     <<"processing", "failed">>}

C1_StatusFollowsGraph ==
    [][\A j \in JobIds :
          jobs'[j].status # jobs[j].status
              => <<jobs[j].status, jobs'[j].status>> \in StatusGraph]_vars

\* C2: a grpo_post job with max_retries = 3 counts its failures one at a time;
\* the first leaves it retrying with retry_count 1 and due in 30 s, the second
\* retrying with retry_count 2 and due in 60 s, and it becomes failed only with
\* retry_count 3, its document reverted.
C2_ThreeFailuresThenFailed ==
    [][\A j \in JobIds :
          (jobs[j].job_type = "grpo_post" /\ jobs[j].max_retries = 3
              /\ HasHandlerDocument(j)) =>
            /\ jobs'[j].retry_count # jobs[j].retry_count =>
                  /\ jobs'[j].retry_count = jobs[j].retry_count + 1
                  /\ jobs'[j].retry_count = 1 =>
                        /\ jobs'[j].status = "retrying"
                        /\ jobs'[j].next_retry_at = utcnow + 30
                  /\ jobs'[j].retry_count = 2 =>
                        /\ jobs'[j].status = "retrying"
                        /\ jobs'[j].next_retry_at = utcnow + 60
                  /\ jobs'[j].retry_count = 3 => jobs'[j].status = "failed"
            /\ (jobs'[j].status = "failed" /\ jobs[j].status # "failed") =>
                  /\ jobs'[j].retry_count = 3
                  /\ GRPODocument'[jobs[j].payload].status = "qc_approved"]_vars

\* C3: every completed job has its document posted under the number the
\* job recorded.
C3_CompletedMatchesDocument ==
    \A j \in JobIds :
        jobs[j].status = "completed" =>
            /\ HandlerDocument(j).status = "posted"
            /\ HandlerDocument(j).sap_document_number
                   = jobs[j].sap_document_number

\* C4: every failed job has completed_at and error_message set and the
\* document its handler tried to post back at the pre-posting status.
C4_FailedRevertsDocument ==
    \A j \in JobIds :
        jobs[j].status = "failed" =>
            /\ jobs[j].completed_at # NULL
            /\ jobs[j].error_message # NULL
            /\ HasHandlerDocument(j) =>
                  HandlerDocument(j).status = "qc_approved"

\* C5: a job that is not failed has retry_count < max_retries, and the
\* evaluation that brings retry_count to max_retries makes the job failed.
C5_RetryCountBelowMax ==
    [][\A j \in 1..Len(jobs') :
          /\ jobs'[j].status # "failed" =>
                jobs'[j].retry_count < jobs'[j].max_retries
          /\ (j \in JobIds /\ jobs'[j].retry_count # jobs[j].retry_count
                /\ jobs'[j].retry_count >= jobs'[j].max_retries) =>
                jobs'[j].status = "failed"]_vars

\* C6: a job of an unknown job_type is never retrying and keeps
\* retry_count 0: its first attempt makes it failed without counting a retry.
C6_UnknownTypeFailsAtOnce ==
    \A j \in JobIds :
        jobs[j].job_type \notin {"grpo_post", "serial_transfer"} =>
            /\ jobs[j].status \in {"pending", "processing", "failed"}
            /\ jobs[j].retry_count = 0

\* C7: a job whose document is not found is never scheduled as retrying.
C7_MissingDocumentNeverRetrying ==
    \A j \in JobIds :
        dispatch(DB, j) = "not_found" => jobs[j].status # "retrying"

\* C8: no job is stranded in processing: whenever a job's status is
\* processing, a worker thread is inside the attempt that set it, and that
\* attempt ends by writing another status.
C8_NoJobStrandedInProcessing ==
    \A j \in JobIds :
        jobs[j].status = "processing" => \E t \in ThreadIds : InAttempt(t, j)

\* A thread whose worker was stopped during the attempt has handled the
\* exception of its job, which is no longer processing.
C8_Witness ==
    \E t \in ThreadIds :
        /\ threads[t].pc = "raised"
        /\ ~workers[threads[t].self].running
        /\ jobs[threads[t].job].status # "processing"

\* C9: at most one worker thread is inside a poll cycle at any time.
C9_SingleDriver ==
    Cardinality({t \in ThreadIds : InCycle(t)}) <= 1

\* C10: once stop() has returned for a worker, no thread of that worker
\* fetches pending or retry-ready jobs.
FetchStep(t) ==
    \/ threads[t].pc = "loop" /\ threads'[t].pc = "iter"
    \/ threads[t].phase = "pending" /\ threads'[t].phase = "retry"

C10_NoFetchAfterStop ==
    [][\A t \in ThreadIds :
          FetchStep(t) => threads[t].self \notin stop_returned]_vars

\* C11: start() is idempotent.  A call of start() made while the worker is
\* running (the call's test of self.running read True), by any of the
\* concurrent callers, returns normally and leaves exactly one live thread
\* driving the worker.
LiveThreadsAfter(w) ==
    {t \in 1..Len(threads') : threads'[t].self = w /\ threads'[t].pc # "done"}

C11_StartIdempotent ==
    [][\A c \in ApiCallers :
          (api'[c] # api[c] /\ api'[c].found_running)
              => /\ api'[c].pc = "idle"
                 /\ Cardinality(LiveThreadsAfter(sap_worker)) = 1]_vars

\* Thread t enters _process_job in this step (the job is threads'[t].job).
AttemptBegins(t) ==
    /\ threads[t].pc = "iter"
    /\ threads'[t].pc \in {"sap_call", "handle_retry"}

\* C12: a job gets exactly one processing attempt from status pending: every
\* attempt that the pending phase of a cycle begins is the first attempt of
\* a job that is still pending, whenever the job was enqueued.
C12_OneAttemptFromPending ==
    [][\A t \in ThreadIds :
          (AttemptBegins(t) /\ threads[t].phase = "pending")
              => /\ jobs[threads'[t].job].status = "pending"
                 /\ jobs[threads'[t].job].attempts = 0]_vars

\* Thread t fetches the pending jobs of a cycle in this step.
FetchesPending(t) == threads[t].pc = "loop" /\ threads'[t].pc = "iter"

\* C13: within one poll cycle the pending jobs fetched are exactly the jobs
\* whose status is pending at the fetch, each once, and they are attempted in
\* ascending created_at order: no job is attempted before a job of the same
\* fetch that has a smaller created_at.
C13_PendingFetchedInCreationOrder ==
    [][\A t \in ThreadIds :
          /\ FetchesPending(t)
                => /\ {threads'[t].todo[i] : i \in 1..Len(threads'[t].todo)}
                        = {j \in JobIds : jobs[j].status = "pending"}
                   /\ Len(threads'[t].todo)
                        = Cardinality({j \in JobIds : jobs[j].status = "pending"})
          /\ (AttemptBegins(t) /\ threads[t].phase = "pending")
                => \A i \in 1..Len(threads'[t].todo) :
                      jobs[threads'[t].job].created_at
                          < jobs[threads'[t].todo[i]].created_at]_vars

\* A thread is attempting the older of two pending jobs it fetched together.
C13_Witness ==
    \E t \in ThreadIds :
        /\ threads[t].phase = "pending"
        /\ threads[t].job # 0
        /\ threads[t].todo # <<>>
        /\ jobs[threads[t].job].created_at
               < jobs[Head(threads[t].todo)].created_at

\* C14: a failed job does not end the cycle.  A thread takes a job off the
\* list it fetched only by attempting it, the handling of a failure brings
\* the thread back to the for loop of the same phase, the cycle ends only
\* when the list of the retry phase is used up, and the thread ends only
\* when it finds self.running False at the top of the loop.
C14_FailureDoesNotEndCycle ==
    [][\A t \in ThreadIds :
          /\ threads'[t].todo # threads[t].todo
                => \/ FetchStep(t)
                   \/ /\ AttemptBegins(t)
                      /\ threads'[t].job = Head(threads[t].todo)
                      /\ threads'[t].todo = Tail(threads[t].todo)
          /\ (threads[t].pc = "raised" /\ threads'[t] # threads[t])
                => /\ threads'[t].pc = "iter"
                   /\ threads'[t].phase = threads[t].phase
          /\ (threads[t].pc # "loop" /\ threads'[t].pc = "loop")
                => threads[t].todo = <<>> /\ threads[t].phase = "retry"
          /\ (threads[t].pc # "done" /\ threads'[t].pc = "done")
                => /\ threads[t].pc = "loop"
                   /\ ~workers[threads[t].self].running]_vars

\* A job has failed and its failure is being handled while later jobs of the
\* same fetch wait in the list.
C14_Witness ==
    \E t \in ThreadIds :
        /\ threads[t].pc = "raised"
        /\ threads[t].todo # <<>>
        /\ jobs[threads[t].job].status \in {"retrying", "failed"}

\* C15: a failure of a job is handled inside _process_job and handled once:
\* no exception leaves _process_job, so no thread is ever in an except clause
\* of _process_pending_jobs or _process_retry_jobs.
C15_NoExceptionLeavesProcessJob ==
    \A t \in ThreadIds : threads[t].pc # "raised"

\* C16: every completed job carries a document number and a result,
\* whatever success response the Integration Client gave.
C16_CompletedHasNumberAndResult ==
    \A j \in JobIds :
        jobs[j].status = "completed"
            => jobs[j].sap_document_number # NULL /\ jobs[j].result # NULL

\* Thread t takes a step of the processing attempt it is in.
AttemptStep(t) == threads[t].job # 0 /\ threads'[t] # threads[t]

\* C18: a failed attempt adds exactly 1 to retry_count, in the pending phase
\* and in the retry phase: the except clause of _process_job adds 1 and the
\* rest of the attempt adds nothing.
C18_OneCountPerFailedAttempt ==
    [][\A t \in ThreadIds :
          AttemptStep(t)
              => /\ threads[t].pc = "handle_retry"
                     => jobs'[threads[t].job].retry_count
                            = jobs[threads[t].job].retry_count + 1
                 /\ threads[t].pc = "raised"
                     => jobs'[threads[t].job].retry_count
                            = jobs[threads[t].job].retry_count]_vars

\* C19: when the Integration Client call of an attempt has failed and the
\* incremented retry_count is below max_retries, no step of the attempt
\* changes the document the job refers to.
C19_RetryLeavesDocumentAlone ==
    [][\A t \in ThreadIds :
          (/\ AttemptStep(t)
           /\ threads[t].pc \in {"handle_retry", "raised"}
           /\ HasHandlerDocument(threads[t].job)
           /\ jobs'[threads[t].job].retry_count
                  < jobs'[threads[t].job].max_retries)
              => /\ GRPODocument' = GRPODocument
                 /\ SerialItemTransfer' = SerialItemTransfer]_vars

\* C20: a job whose Integration Client call fails on every attempt is failed
\* only after max_retries attempts.
C20_FailedAfterMaxRetriesAttempts ==
    \A j \in JobIds :
        (jobs[j].status = "failed" /\ HasHandlerDocument(j))
            => jobs[j].attempts = jobs[j].max_retries

\* C17: the failure that brings retry_count to r and leaves the job
\* retrying schedules the retry min(300, 30 * 2^(r-1)) seconds ahead, and r
\* is the number of the failed attempt, so that the successive failed
\* attempts of a job schedule 30, 60, 120, 240, 300, ... and skip no value.
C17_BackoffSequence ==
    [][\A t \in ThreadIds :
          (/\ AttemptStep(t)
           /\ jobs'[threads[t].job].retry_count
                  # jobs[threads[t].job].retry_count
           /\ jobs'[threads[t].job].status = "retrying")
              => /\ jobs'[threads[t].job].next_retry_at
                        = utcnow + Min(300,
                            30 * Pow2(jobs'[threads[t].job].retry_count - 1))
                 /\ jobs'[threads[t].job].retry_count
                        = jobs'[threads[t].job].attempts]_vars

\* Thread t fetches the retry-ready jobs of a cycle in this step.
FetchesRetry(t) ==
    threads[t].phase = "pending" /\ threads'[t].phase = "retry"

\* C21: within one poll cycle the pending jobs come first.  A cycle begins
\* with the fetch of the pending jobs, the retry-ready jobs are fetched only
\* when every pending job fetched in the cycle has been processed to its
\* end, and the thread is in the retry phase only after that fetch.
C21_PendingBeforeRetry ==
    [][\A t \in ThreadIds :
          /\ FetchesPending(t) => threads'[t].phase = "pending"
          /\ FetchesRetry(t)
                => /\ threads[t].todo = <<>>
                   /\ threads[t].job = 0
                   /\ threads[t].pc = "iter"
          /\ threads'[t].phase # threads[t].phase
                => FetchesPending(t) \/ FetchesRetry(t)]_vars

\* A thread that has been through the pending phase of its cycle is
\* attempting a retry-ready job it fetched afterwards.
C21_Witness ==
    \E t \in ThreadIds :
        /\ threads[t].phase = "retry"
        /\ threads[t].job # 0
        /\ jobs[threads[t].job].attempts > 1

\* C22: the retry fetch of a cycle takes exactly the retrying jobs that are
\* due at the fetch, a job in status retrying is moved to processing only by
\* the retry phase and only when its next_retry_at has come, and the jobs of
\* one retry fetch are attempted in ascending created_at order.
C22_RetryOnlyWhenDue ==
    [][\A t \in ThreadIds :
          /\ FetchesRetry(t)
                => {threads'[t].todo[i] : i \in 1..Len(threads'[t].todo)}
                     = {j \in JobIds : /\ jobs[j].status = "retrying"
                                       /\ jobs[j].next_retry_at <= utcnow}
          /\ (AttemptBegins(t) /\ jobs[threads'[t].job].status = "retrying")
                => /\ threads[t].phase = "retry"
                   /\ jobs[threads'[t].job].next_retry_at <= utcnow
          /\ (AttemptBegins(t) /\ threads[t].phase = "retry")
                => \A i \in 1..Len(threads'[t].todo) :
                      jobs[threads'[t].job].created_at
                          < jobs[threads'[t].todo[i]].created_at]_vars

\* C23: completed and failed are absorbing: no step changes the status,
\* retry_count, completed_at or error_message of a job that is completed or
\* failed.
C23_TerminalIsAbsorbing ==
    [][\A j \in JobIds :
          jobs[j].status \in {"completed", "failed"}
              => /\ jobs'[j].status = jobs[j].status
                 /\ jobs'[j].retry_count = jobs[j].retry_count
                 /\ jobs'[j].completed_at = jobs[j].completed_at
                 /\ jobs'[j].error_message = jobs[j].error_message]_vars

\* C24: started_at and completed_at are each assigned at most once in the
\* life of a job.
C24_TimestampsSetOnce ==
    \A j \in JobIds :
        /\ jobs[j].started_at # "overwritten"
        /\ jobs[j].completed_at # "overwritten"

\* C25: a job that is pending, processing, retrying or failed has neither
\* result nor sap_document_number.
C25_ResultOnlyWhenCompleted ==
    \A j \in JobIds :
        jobs[j].status # "completed"
            => jobs[j].result = NULL /\ jobs[j].sap_document_number = NULL

\* C26: retry_count never exceeds max_retries, whatever the status.
C26_RetryCountAtMostMax ==
    \A j \in JobIds : jobs[j].retry_count <= jobs[j].max_retries

\* C28: no step takes a document whose status is 'posted' to another status.
C28_PostedStaysPosted ==
    [][/\ \A i \in DOMAIN GRPODocument :
             GRPODocument[i].status = "posted"
                 => GRPODocument'[i].status = "posted"
       /\ \A i \in DOMAIN SerialItemTransfer :
             SerialItemTransfer[i].status = "posted"
                 => SerialItemTransfer'[i].status = "posted"]_vars

\* C29: the only document a processing attempt of a job with a handler
\* writes, on success and on terminal failure alike, is the one the handler
\* loads: the row with the payload's id in the table of the job's type.
C29_WritesOnlyHandlerDocument ==
    [][\A t \in ThreadIds :
          (/\ AttemptStep(t)
           /\ jobs[threads[t].job].job_type \in {"grpo_post", "serial_transfer"})
              => /\ \A i \in DOMAIN GRPODocument :
                        GRPODocument'[i] # GRPODocument[i]
                            => /\ jobs[threads[t].job].job_type = "grpo_post"
                               /\ jobs[threads[t].job].payload = i
                 /\ \A i \in DOMAIN SerialItemTransfer :
                        SerialItemTransfer'[i] # SerialItemTransfer[i]
                            => /\ jobs[threads[t].job].job_type
                                      = "serial_transfer"
                               /\ jobs[threads[t].job].payload = i]_vars

\* C30: once stop() has been called, the thread it waits for eventually
\* leaves its loop, also when start() is called on the worker object again
\* before the thread has tested self.running.
C30_StoppedThreadExits ==
    \A t \in 1..MaxThreads :
        (caller.pc # "idle" /\ caller.thread = t)
            ~> (t \in ThreadIds /\ threads[t].pc = "done")

\* The global worker exists and its flag is set.
WorkerRunning == sap_worker # 0 /\ workers[sap_worker].running

\* C27: while the worker keeps running, every enqueued job eventually is
\* completed or failed: from any moment at which the job exists and the
\* worker is running, either the job becomes terminal or the worker is
\* stopped.
C27_EveryJobTerminates ==
    \A j \in 1..MaxJobs :
        (j \in JobIds /\ WorkerRunning)
            ~> \/ j \in JobIds /\ jobs[j].status \in {"completed", "failed"}
               \/ ~WorkerRunning

\* A job that an attempt has left retrying is due again while the worker is
\* running.
C27_Witness ==
    /\ WorkerRunning
    /\ \E j \in JobIds :
          /\ jobs[j].status = "retrying"
          /\ jobs[j].next_retry_at = utcnow
          /\ \A t \in ThreadIds : threads[t].job # j

====
